---- MODULE Spec2Model ----
(***************************************************************************)
(* Bookstore backend (den-ffv/BS-3): the authentication gate, the token    *)
(* utility, the signup/signin flow and the CRUD handlers they interact     *)
(* with, as a state machine over the relational store.                     *)
(*                                                                         *)
(* Two specifications share the variables:                                 *)
(*   SpecGate  requests to the /author router, which is mounted behind     *)
(*             authenticateToken, with tokens from generateToken or forged  *)
(*             by the client, and a clock for token expiry;                 *)
(*   Spec      /auth/signup and /auth/signin, interleaved at their awaits   *)
(*             with the /user_type and /crm_card writes.                    *)
(*                                                                         *)
(* A handler runs from one await to the next without interruption, so each *)
(* store statement of a handler is one step.  A response is written to     *)
(* resp and taken by the client (Deliver) before the next step.            *)
(***************************************************************************)
EXTENDS Integers, Sequences, FiniteSets, TLC

VARIABLES
    db,        \* the store: one set of rows per table
    seq,       \* the next value of each table's id sequence (SERIAL)
    inflight,  \* signup/signin requests suspended at an await
    resp,      \* the response being sent, NoResp when none
    now,       \* the clock, in the unit of token expiry
    env,       \* process.env
    issued,    \* tokens generateToken has produced
    deleted,   \* history: the [table, id] whose DELETE was answered 200
    signups    \* history: the signup requests answered by the controller

vars == <<db, seq, inflight, resp, now, env, issued, deleted, signups>>

----------------------------------------------------------------------------
(* Bounds *)

MaxTime == 2
MaxAuthorId == 2
MaxIssued == 1
MaxUserId == 2
MaxUserTypeId == 2
MaxCardId == 2
MaxInflight == 1
MaxConcurrent == 2
MaxSalt == 1
MaxCategoryId == 2
MaxBookId == 2
MaxPrice == 1
MaxRefId == 1

(* Program constants *)

saltRounds == 5
TOKEN_EXPIRES_IN == 1

----------------------------------------------------------------------------
(* JavaScript values *)

\* null / undefined of a record- or string-valued expression
NULL == [null |-> TRUE]

\* A string is [str |-> the sequence of its atoms]; an atom is a word without
\* spaces, a space, or a whole JSON web token.
Str(atoms) == [str |-> atoms]
Word(s) == [word |-> s]
SP == Word(" ")
EmptyString == Str(<<>>)

Falsy(x) == x = NULL \/ x = EmptyString

\* String.prototype.split(" "), on the atoms of a string
RECURSIVE SplitAtoms(_)
SplitAtoms(s) ==
    IF s = <<>> THEN <<EmptyString>>
    ELSE LET rest == SplitAtoms(Tail(s)) IN
         IF Head(s) = SP THEN <<EmptyString>> \o rest
         ELSE <<Str(<<Head(s)>> \o rest[1].str)>> \o Tail(rest)

Split(s) == SplitAtoms(s.str)

\* arr[i] with JavaScript's 0-based index; undefined past the end
At(arr, i) == IF i + 1 <= Len(arr) THEN arr[i + 1] ELSE NULL

\* exclude that filters nothing out
excludeNothing(obj, keys) == obj

\* exclude(obj, keys): the entries of obj whose key is not in keys
exclude(obj, keys) == [k \in DOMAIN obj \ keys |-> obj[k]]

----------------------------------------------------------------------------
(* Token utility *)

EnvSet == [SECRET_KEY : {"", "k1"}]     \* "" : unset (or empty), falsy

\* const SecretKey = process.env.SECRET_KEY || 'secret'
SecretKey == IF env.SECRET_KEY = "" THEN "secret" ELSE env.SECRET_KEY

\* jwt.sign(payload, key, {expiresIn}) at time t: the payload with iat and exp,
\* signed under key
jwtSign(payload, key, t) ==
    [word |-> "jwt", id |-> payload.id, username |-> payload.username,
     iat |-> t, exp |-> t + TOKEN_EXPIRES_IN, sig |-> key]

generateToken(user) ==
    jwtSign([id |-> user.id, username |-> user.login], SecretKey, now)

\* jwtVerify without the expiry check
jwtVerifyNoExpiry(token, key) ==
    IF /\ Len(token.str) = 1
       /\ token.str[1].word = "jwt"
       /\ token.str[1].sig = key
    THEN [err |-> FALSE, user |-> [k \in DOMAIN token.str[1] \ {"word", "sig"} |-> token.str[1][k]]]
    ELSE [err |-> TRUE, user |-> NULL]

\* jwt.verify(token, key): the decoded payload, or err
jwtVerify(token, key) ==
    IF /\ Len(token.str) = 1
       /\ token.str[1].word = "jwt"
       /\ token.str[1].sig = key
       /\ now < token.str[1].exp
    THEN [err |-> FALSE, user |-> exclude(token.str[1], {"word", "sig"})]
    ELSE [err |-> TRUE, user |-> NULL]

----------------------------------------------------------------------------
(* Authentication gate *)

\* authenticateToken without the return after the 403: next() is called too
authenticateTokenNoReturn(authHeader) ==
    LET token == IF Falsy(authHeader) THEN authHeader
                 ELSE At(Split(authHeader), 1)
    IN  IF Falsy(token)
        THEN [status |-> 401, message |-> "Token required", next |-> FALSE, user |-> NULL]
        ELSE LET v == jwtVerify(token, IF env.SECRET_KEY = "" THEN "test" ELSE env.SECRET_KEY)
             IN  [status |-> IF v.err THEN 403 ELSE 0,
                  message |-> IF v.err THEN "Invalid or expired token" ELSE "",
                  next |-> TRUE, user |-> v.user]

\* authenticateToken that answers nothing when the token fails verification
authenticateTokenSilent(authHeader) ==
    LET token == IF Falsy(authHeader) THEN authHeader
                 ELSE At(Split(authHeader), 1)
    IN  IF Falsy(token)
        THEN [status |-> 401, message |-> "Token required", next |-> FALSE, user |-> NULL]
        ELSE LET v == jwtVerify(token, IF env.SECRET_KEY = "" THEN "test" ELSE env.SECRET_KEY)
             IN  [status |-> 0, message |-> "", next |-> ~v.err, user |-> v.user]

\* What authenticateToken did: the response it sent (status 0: none), whether
\* it called next(), and req.user
authenticateToken(authHeader) ==
    LET token == IF Falsy(authHeader) THEN authHeader
                 ELSE At(Split(authHeader), 1)
    IN  IF Falsy(token)
        THEN [status |-> 401, message |-> "Token required", next |-> FALSE, user |-> NULL]
        ELSE LET v == jwtVerify(token, IF env.SECRET_KEY = "" THEN "test" ELSE env.SECRET_KEY)
             IN  IF v.err
                 THEN [status |-> 403, message |-> "Invalid or expired token",
                       next |-> FALSE, user |-> NULL]
                 ELSE [status |-> 0, message |-> "", next |-> TRUE, user |-> v.user]

----------------------------------------------------------------------------
(* Password utility (bcrypt) *)

\* A password is its first 72 bytes (head) and the rest (tail): bcrypt reads
\* the head only.
Salts == 1..MaxSalt

\* bcrypt.genSaltSync(rounds): a random salt
genSaltSync(rounds) == {[rounds |-> rounds, salt |-> s] : s \in Salts}

\* bcrypt.hashSync(password, salt)
hashSync(password, salt) ==
    [alg |-> "bcrypt", rounds |-> salt.rounds, salt |-> salt.salt, of |-> password.head]

\* compare that accepts every password
compareAlways(password, hash) == TRUE

\* bcrypt.compare(password, hash): rehash under the hash's own salt
compare(password, hash) ==
    hashSync(password, [rounds |-> hash.rounds, salt |-> hash.salt]) = hash

----------------------------------------------------------------------------
(* The store: Prisma over PostgreSQL *)

Tables == {"user", "user_type", "crm_card", "author", "categories", "publishers", "book"}

P2002 == "Unique constraint failed on the fields: (login)"
P2003 == "Foreign key constraint failed"
P2025 == "Record to update or delete does not exist"
P2002id == "Unique constraint failed on the fields: (id)"
UnknownArgument == "Unknown argument"
MissingArgument == "Argument is missing"

\* findUnique({where: {id}}): the row or null
findUnique(table, id) ==
    IF \E r \in db[table] : r.id = id
    THEN CHOOSE r \in db[table] : r.id = id
    ELSE NULL

\* The result of a store statement: the error thrown ("" when none), the row
\* returned, and the store it leaves
Thrown(msg, db2, seq2) == [err |-> msg, row |-> NULL, db |-> db2, seq |-> seq2]
Returned(row, db2, seq2) == [err |-> "", row |-> row, db |-> db2, seq |-> seq2]

\* nextval of a table's id sequence; it is taken whether or not the insert
\* succeeds
NextVal(table) == [seq EXCEPT ![table] = @ + 1]

\* prisma.author.create({data})
authorCreate(data) ==
    LET row == [id |-> seq.author, firstName |-> data.firstName]
    IN  Returned(row, [db EXCEPT !.author = @ \cup {row}], NextVal("author"))

\* prisma.author.update({where: {id}, data}): throws when the row is absent
authorUpdate(id, data) ==
    LET old == findUnique("author", id)
        row == [id |-> id, firstName |-> data.firstName]
    IN  IF old = NULL THEN Thrown(P2025, db, seq)
        ELSE Returned(row, [db EXCEPT !.author = (@ \ {old}) \cup {row}], seq)

\* ON DELETE SET NULL: the rows of book after the row id they reference
\* through key is deleted
setNull(books, key, id) ==
    {IF b[key] = [num |-> id] THEN [b EXCEPT ![key] = NULL] ELSE b : b \in books}

\* prisma.author.delete({where: {id}}): throws when the row is absent; the
\* books of the author get author_id null (book_author_id_fkey)
authorDelete(id) ==
    LET old == findUnique("author", id)
    IN  IF old = NULL THEN Thrown(P2025, db, seq)
        ELSE Returned(old, [db EXCEPT !.author = @ \ {old},
                                      !.book = setNull(@, "author_id", id)], seq)

\* The ids of a table's rows
Ids(table) == {r.id : r \in db[table]}

\* userCreate without the unique index on login
userCreateNoUnique(data) ==
    LET row == [id |-> seq.user, login |-> data.login, password |-> data.password]
    IN  Returned(row, [db EXCEPT !.user = @ \cup {row}], NextVal("user"))

\* prisma.user.create({data: {login, password}}): login is unique
userCreate(data) ==
    LET row == [id |-> seq.user, login |-> data.login, password |-> data.password]
    IN  IF \E u \in db.user : u.login = data.login
        THEN Thrown(P2002, db, NextVal("user"))
        ELSE Returned(row, [db EXCEPT !.user = @ \cup {row}], NextVal("user"))

\* prisma.user.findUnique({where: {login}})
userFindUniqueByLogin(login) ==
    IF \E u \in db.user : u.login = login
    THEN CHOOSE u \in db.user : u.login = login
    ELSE NULL

\* findFirst without the where clause
userTypeFindFirstAny == db.user_type

\* prisma.userType.findFirst({where: {is_user: true}}): the rows it may return
\* (no ordering is asked for)
userTypeFindFirst == {t \in db.user_type : t.is_user}

\* prisma.userType.create({data})
userTypeCreate(data) ==
    LET row == [id |-> seq.user_type, is_user |-> data.is_user]
    IN  Returned(row, [db EXCEPT !.user_type = @ \cup {row}], NextVal("user_type"))

\* prisma.userType.update({where: {id}, data})
userTypeUpdate(id, data) ==
    LET old == findUnique("user_type", id)
        row == [id |-> id, is_user |-> data.is_user]
    IN  IF old = NULL THEN Thrown(P2025, db, seq)
        ELSE Returned(row, [db EXCEPT !.user_type = (@ \ {old}) \cup {row}], seq)

\* userTypeDelete without the foreign key of crm_card
userTypeDeleteNoRestrict(id) ==
    LET old == findUnique("user_type", id)
    IN  IF old = NULL THEN Thrown(P2025, db, seq)
        ELSE Returned(old, [db EXCEPT !.user_type = @ \ {old}], seq)

\* prisma.userType.delete({where: {id}}): crm_card_user_type_id_fkey is
\* ON DELETE RESTRICT
userTypeDelete(id) ==
    LET old == findUnique("user_type", id)
    IN  IF old = NULL THEN Thrown(P2025, db, seq)
        ELSE IF \E c \in db.crm_card : c.user_type_id = id THEN Thrown(P2003, db, seq)
        ELSE Returned(old, [db EXCEPT !.user_type = @ \ {old}], seq)

\* The foreign keys of a crm_card row reference existing rows
crmCardKeysOk(row) ==
    row.user_id \in Ids("user") /\ row.user_type_id \in Ids("user_type")

\* prisma.crmCard.create({data})
crmCardCreate(data) ==
    LET row == [id |-> seq.crm_card, user_id |-> data.user_id,
                user_type_id |-> data.user_type_id]
    IN  IF ~crmCardKeysOk(row) THEN Thrown(P2003, db, NextVal("crm_card"))
        ELSE Returned(row, [db EXCEPT !.crm_card = @ \cup {row}], NextVal("crm_card"))

\* prisma.crmCard.update({where: {id}, data}): the fields data gives replace
\* the row's
crmCardUpdate(id, data) ==
    LET old == findUnique("crm_card", id)
        row == [k \in DOMAIN old |-> IF k \in DOMAIN data THEN data[k] ELSE old[k]]
    IN  IF old = NULL THEN Thrown(P2025, db, seq)
        ELSE IF ~crmCardKeysOk(row) THEN Thrown(P2003, db, seq)
        ELSE Returned(row, [db EXCEPT !.crm_card = (@ \ {old}) \cup {row}], seq)

\* prisma.crmCard.delete({where: {id}})
crmCardDelete(id) ==
    LET old == findUnique("crm_card", id)
    IN  IF old = NULL THEN Thrown(P2025, db, seq)
        ELSE Returned(old, [db EXCEPT !.crm_card = @ \ {old}], seq)

\* include: {user_type: true}
includeUserType(card, types) ==
    [k \in DOMAIN card \cup {"user_type"} |->
        IF k = "user_type"
        THEN CHOOSE t \in types : t.id = card.user_type_id
        ELSE card[k]]

\* findFirst without the where clause
crmCardFindFirstAny(user_id) ==
    IF db.crm_card # {}
    THEN {includeUserType(c, db.user_type) : c \in db.crm_card}
    ELSE {NULL}

\* prisma.crmCard.findFirst({where: {user_id}, include: {user_type: true}}):
\* the values it may return (no ordering is asked for)
crmCardFindFirst(user_id) ==
    IF \E c \in db.crm_card : c.user_id = user_id
    THEN {includeUserType(c, db.user_type) : c \in {x \in db.crm_card : x.user_id = user_id}}
    ELSE {NULL}

----------------------------------------------------------------------------
(* /author router *)

\* What a handler did: the response, the store it leaves, and whether it
\* issued a store statement
Handled(status, body, r) ==
    [status |-> status, body |-> body, db |-> r.db, seq |-> r.seq, store |-> TRUE]
Rejected(status, body) ==
    [status |-> status, body |-> body, db |-> db, seq |-> seq, store |-> FALSE]

\* catch that answers a fixed text instead of the error's message
CaughtScrubbed(r) == Handled(500, [message |-> "Internal server error"], r)

\* catch (error) { return response.status(500).json({ message: error.message }) }
\* for the failure r of a store statement
Caught(r) == Handled(500, [message |-> r.err], r)

\* body('firstName').notEmpty().isString()
authorValid(data) == data.firstName # ""

authorRouter(op, id, data) ==
    CASE op = "post" ->
           IF ~authorValid(data) THEN Rejected(400, [errors |-> "firstName"])
           ELSE LET r == authorCreate(data) IN Handled(201, r.row, r)
      [] op = "put" ->
           IF ~authorValid(data) THEN Rejected(400, [errors |-> "firstName"])
           ELSE LET r == authorUpdate(id, data) IN
                IF r.err # "" THEN Caught(r)
                ELSE Handled(200, r.row, r)
      [] op = "list" ->
           Handled(200, [rows |-> db.author], [db |-> db, seq |-> seq])
      [] op = "get" ->
           LET record == findUnique("author", id) IN
           IF record = NULL
           THEN Handled(404, [message |-> "CRM card not found"], [db |-> db, seq |-> seq])
           ELSE Handled(200, record, [db |-> db, seq |-> seq])
      [] op = "delete" ->
           LET r == authorDelete(id) IN
           IF r.err # "" THEN Caught(r)
           ELSE Handled(200, [message |-> "CRM card deleted successfully"], r)

----------------------------------------------------------------------------
(* Requests *)

NoResp == [route |-> "none"]

\* The users generateToken is applied to
TokenUsers ==
    {[id |-> 1, login |-> "l1", password |-> hashSync([head |-> "a", tail |-> ""], [rounds |-> saltRounds, salt |-> 1])],
     [id |-> 2, login |-> "l2", password |-> hashSync([head |-> "b", tail |-> ""], [rounds |-> saltRounds, salt |-> 1])]}

\* Tokens a client can make up: garbage, and well-formed tokens signed under
\* keys of its choice
ForgedTokens ==
    {Word("garbage")} \cup
    {jwtSign([id |-> 1, username |-> "l1"], k, 0) : k \in {"test", "k1", "bad"}}

\* The Authorization headers a client sends
Headers ==
    LET toks == issued \cup ForgedTokens IN
    {NULL, EmptyString, Str(<<Word("Bearer")>>), Str(<<Word("Bearer"), SP>>)}
    \cup {Str(<<t>>) : t \in toks}
    \cup {Str(<<s, SP, t>>) : s \in {Word("Bearer"), Word("Basic")}, t \in toks}
    \cup {Str(<<Word("Bearer"), SP, SP, t>>) : t \in toks}
    \cup {Str(<<Word("Bearer"), SP, t, Word("x")>>) : t \in toks}

AuthorData == [firstName : {"", "A", "B"}]

\* apiRoutes.use('/author', authenticateToken, authorRouter): one request
AuthorRequest(header, op, id, data) ==
    /\ resp = NoResp
    /\ seq.author <= MaxAuthorId \/ op # "post"
    /\ LET g == authenticateToken(header)
           h == authorRouter(op, id, data)
       IN  IF g.next
           THEN /\ resp' = [route |-> "author", op |-> op, id |-> id, header |-> header,
                            time |-> now, gate |-> g, handler |-> TRUE, store |-> h.store,
                            status |-> h.status, body |-> h.body]
                /\ db' = h.db
                /\ seq' = h.seq
           ELSE /\ resp' = [route |-> "author", op |-> op, id |-> id, header |-> header,
                            time |-> now, gate |-> g, handler |-> FALSE, store |-> FALSE,
                            status |-> g.status, body |-> [message |-> g.message]]
                /\ UNCHANGED <<db, seq>>
    /\ UNCHANGED <<inflight, now, env, issued, deleted, signups>>

----------------------------------------------------------------------------
(* /user_type and /crm_card routers: the writes *)

Empty == [k \in {} |-> 0]      \* a body without fields

UserTypeData == {Empty, [is_user |-> TRUE], [is_user |-> FALSE]}

\* body('is_user').notEmpty().isBoolean()
userTypeValid(data) == "is_user" \in DOMAIN data

\* getUserTypeById that removes the row it returns
getUserTypeByIdTaking(id) ==
    LET row == findUnique("user_type", id)
    IN  Returned(row, [db EXCEPT !.user_type = @ \ {row}], seq)

\* prisma.userType.findUnique({where: {id}})
getUserTypeById(id) == Returned(findUnique("user_type", id), db, seq)

\* prisma.userType.findMany()
getUserType == Returned(db.user_type, db, seq)

userTypeRouter(op, id, data) ==
    CASE op = "post" ->
           IF ~userTypeValid(data) THEN Rejected(400, [errors |-> "is_user"])
           ELSE LET r == userTypeCreate(data) IN Handled(201, r.row, r)
      [] op = "put" ->
           IF ~userTypeValid(data) THEN Rejected(400, [errors |-> "is_user"])
           ELSE LET r == userTypeUpdate(id, data) IN
                IF r.err # "" THEN Caught(r)
                ELSE Handled(200, r.row, r)
      [] op = "list" ->
           LET r == getUserType IN Handled(200, [rows |-> r.row], r)
      [] op = "get" ->
           LET r == getUserTypeById(id) IN
           IF r.row = NULL THEN Handled(404, [message |-> "CRM card not found"], r)
           ELSE Handled(200, r.row, r)
      [] op = "delete" ->
           LET r == userTypeDelete(id) IN
           IF r.err # "" THEN Caught(r)
           ELSE Handled(200, [message |-> "CRM card deleted successfully"], r)

CrmCardData ==
    {Empty}
    \cup [user_id : 1..MaxUserId]
    \cup [user_type_id : 1..MaxUserTypeId]
    \cup [user_id : 1..MaxUserId, user_type_id : 1..MaxUserTypeId]

\* post: body('user_id').notEmpty().isInt(), body('user_type_id').notEmpty().isInt()
crmCardValid(data) == {"user_id", "user_type_id"} \subseteq DOMAIN data

crmCardRouter(op, id, data) ==
    CASE op = "post" ->
           IF ~crmCardValid(data) THEN Rejected(400, [errors |-> "user_id, user_type_id"])
           ELSE LET r == crmCardCreate(data) IN
                IF r.err # "" THEN Caught(r)
                ELSE Handled(201, r.row, r)
      [] op = "put" ->
           LET r == crmCardUpdate(id, data) IN
           IF r.err # "" THEN Caught(r)
           ELSE Handled(200, r.row, r)
      [] op = "delete" ->
           LET r == crmCardDelete(id) IN
           IF r.err # "" THEN Caught(r)
           ELSE Handled(200, [message |-> "CRM card deleted successfully"], r)

\* apiRoutes.use('/user_type', userTypeRouter): one request
UserTypeRequest(op, id, data) ==
    /\ resp = NoResp
    /\ seq.user_type <= MaxUserTypeId \/ op # "post"
    /\ LET h == userTypeRouter(op, id, data) IN
       /\ resp' = [route |-> "user_type", op |-> op, id |-> id, data |-> data,
                   status |-> h.status, body |-> h.body, store |-> h.store]
       /\ db' = h.db
       /\ seq' = h.seq
    /\ UNCHANGED <<inflight, now, env, issued, deleted, signups>>

\* apiRoutes.use('/crm_card', crmCardRouter): one request
CrmCardRequest(op, id, data) ==
    /\ resp = NoResp
    /\ seq.crm_card <= MaxCardId \/ op # "post"
    /\ LET h == crmCardRouter(op, id, data) IN
       /\ resp' = [route |-> "crm_card", op |-> op, id |-> id, data |-> data,
                   status |-> h.status, body |-> h.body, store |-> h.store]
       /\ db' = h.db
       /\ seq' = h.seq
    /\ UNCHANGED <<inflight, now, env, issued, deleted, signups>>

----------------------------------------------------------------------------
(* /categories router *)

\* The columns of the categories table
CategoriesColumns == {"id", "name"}

\* prisma.categories.create({data}) with data = request.body as it came: an id
\* that data gives is taken as the row's id and the sequence is left alone,
\* otherwise the id is the sequence's next value; either way it must be free
categoriesCreate(data) ==
    LET given == "id" \in DOMAIN data
        id == IF given THEN data.id ELSE seq.categories
        seq2 == IF given THEN seq ELSE NextVal("categories")
        row == [id |-> id, name |-> data.name]
    IN  IF ~(DOMAIN data \subseteq CategoriesColumns) THEN Thrown(UnknownArgument, db, seq)
        ELSE IF "name" \notin DOMAIN data THEN Thrown(MissingArgument, db, seq)
        ELSE IF id \in Ids("categories") THEN Thrown(P2002id, db, seq2)
        ELSE Returned(row, [db EXCEPT !.categories = @ \cup {row}], seq2)

\* prisma.categories.update({where: {id}, data}): throws when the row is
\* absent; the fields data gives, the id among them, replace the row's, and
\* the books of the category follow a new id (ON UPDATE CASCADE)
categoriesUpdate(id, data) ==
    LET old == findUnique("categories", id)
        row == [k \in DOMAIN old |-> IF k \in DOMAIN data THEN data[k] ELSE old[k]]
    IN  IF ~(DOMAIN data \subseteq CategoriesColumns) THEN Thrown(UnknownArgument, db, seq)
        ELSE IF old = NULL THEN Thrown(P2025, db, seq)
        ELSE IF row.id # id /\ row.id \in Ids("categories") THEN Thrown(P2002id, db, seq)
        ELSE Returned(row, [db EXCEPT !.categories = (@ \ {old}) \cup {row},
                                      !.book = {IF b.category_id = [num |-> id]
                                                THEN [b EXCEPT !.category_id = [num |-> row.id]]
                                                ELSE b : b \in @}], seq)

\* categoriesDelete with ON DELETE CASCADE in place of SET NULL
categoriesDeleteCascade(id) ==
    LET old == findUnique("categories", id)
    IN  IF old = NULL THEN Thrown(P2025, db, seq)
        ELSE Returned(old, [db EXCEPT !.categories = @ \ {old},
                                      !.book = {b \in @ : b.category_id # [num |-> id]}], seq)

\* prisma.categories.delete({where: {id}}): throws when the row is absent; the
\* books of the category get category_id null (book_category_id_fkey)
categoriesDelete(id) ==
    LET old == findUnique("categories", id)
    IN  IF old = NULL THEN Thrown(P2025, db, seq)
        ELSE Returned(old, [db EXCEPT !.categories = @ \ {old},
                                      !.book = setNull(@, "category_id", id)], seq)

\* The bodies a client sends: no field, a name, a name with an id of the
\* client's choice, a name with a field the table does not have
CategoriesData ==
    {Empty}
    \cup [name : {"", "A", "B"}]
    \cup [id : 1..MaxCategoryId, name : {"A"}]
    \cup {[name |-> "A", title |-> "x"]}

\* body('name').notEmpty().isString()
categoriesValid(data) == "name" \in DOMAIN data /\ data.name # ""

categoriesRouter(op, id, data) ==
    CASE op = "post" ->
           IF ~categoriesValid(data) THEN Rejected(400, [errors |-> "name"])
           ELSE LET r == categoriesCreate(data) IN
                IF r.err # "" THEN Caught(r)
                ELSE Handled(201, r.row, r)
      [] op = "put" ->
           IF ~categoriesValid(data) THEN Rejected(400, [errors |-> "name"])
           ELSE LET r == categoriesUpdate(id, data) IN
                IF r.err # "" THEN Caught(r)
                ELSE IF r.row = NULL THEN Handled(404, [message |-> "CRM card not found"], r)
                ELSE Handled(200, r.row, r)
      [] op = "list" ->
           Handled(200, [rows |-> db.categories], [db |-> db, seq |-> seq])
      [] op = "get" ->
           LET record == findUnique("categories", id) IN
           IF record = NULL
           THEN Handled(404, [message |-> "CRM card not found"], [db |-> db, seq |-> seq])
           ELSE Handled(200, record, [db |-> db, seq |-> seq])
      [] op = "delete" ->
           LET r == categoriesDelete(id) IN
           IF r.err # "" THEN Caught(r)
           ELSE IF r.row = NULL THEN Handled(404, [message |-> "CRM card not found"], r)
           ELSE Handled(200, [message |-> "CRM card deleted successfully"], r)

\* apiRoutes.use('/categories', categoriesRouter): one request
CategoriesRequest(op, id, data) ==
    /\ resp = NoResp
    /\ seq.categories <= MaxCategoryId \/ op # "post"
    /\ LET h == categoriesRouter(op, id, data) IN
       /\ resp' = [route |-> "categories", op |-> op, id |-> id, data |-> data,
                   status |-> h.status, body |-> h.body, store |-> h.store]
       /\ db' = h.db
       /\ seq' = h.seq
       /\ deleted' = IF op = "delete" /\ h.status = 200
                     THEN deleted \cup {[table |-> "categories", id |-> id]}
                     ELSE deleted
    /\ UNCHANGED <<inflight, now, env, issued, signups>>

\* The first segments that apiRoutes mounts a router on
Mounted ==
    {"auth", "user_type", "crm_card", "crm_email", "crm_payment_card",
     "crm_address", "author", "categories", "publishers"}

\* apiRoutes: the router a path is dispatched to, by its first segment;
\* "none" when no router is mounted there
apiRoutes(path) == IF path[1] \in Mounted THEN path[1] ELSE "none"

\* The entity paths requested with GET
EntityPaths ==
    {<<"categories">>, <<"book">>, <<"book", "filters">>, <<"order">>,
     <<"order_status">>, <<"order_item">>}

\* app.use('/api', apiRoutes): GET /api/<path>. A path on which nothing is
\* mounted falls through to the 404 of Express
ApiGet(path) ==
    /\ resp = NoResp
    /\ LET router == apiRoutes(path)
           h == categoriesRouter("list", 0, Empty)
       IN  resp' = IF router = "categories"
                   THEN [route |-> "api", path |-> path, router |-> router,
                         status |-> h.status, body |-> h.body]
                   ELSE [route |-> "api", path |-> path, router |-> router,
                         status |-> 404, body |-> [html |-> "Cannot GET"]]
    /\ UNCHANGED <<db, seq, inflight, now, env, issued, deleted, signups>>

----------------------------------------------------------------------------
(* /book router: the filtered listing *)

\* A number, where null or NaN may stand in its place
Num(n) == [num |-> n]
NaN == [nan |-> TRUE]

\* The decimal text of n, as an atom of a string
Digits(n) == [digits |-> n]
NumStr(n) == Str(<<Digits(n)>>)

\* Number(s) of a string: its value when s is the text of a number, 0 for
\* the empty string, otherwise NaN
Number(s) ==
    IF s = EmptyString THEN Num(0)
    ELSE IF Len(s.str) = 1 /\ "digits" \in DOMAIN s.str[1] THEN Num(s.str[1].digits)
    ELSE NaN

\* !x of a number or undefined
FalsyNumber(x) == x = NULL \/ x = Num(0) \/ x = NaN

FilterKeys == {"author_id", "category_id", "publisher_id", "min_price", "max_price"}
RefKeys == {"author_id", "category_id", "publisher_id"}

\* request.query.x ? Number(request.query.x) : undefined, for the five
\* parameters
filtersOf(query) ==
    [k \in FilterKeys |-> IF Falsy(query[k]) THEN NULL ELSE Number(query[k])]

\* include: {author: true, category: true, publisher: true}
includeRefs(book) ==
    [k \in DOMAIN book \cup {"author", "category", "publisher"} |->
        CASE k = "author" -> IF book.author_id = NULL THEN NULL
                             ELSE findUnique("author", book.author_id.num)
          [] k = "category" -> IF book.category_id = NULL THEN NULL
                               ELSE findUnique("categories", book.category_id.num)
          [] k = "publisher" -> IF book.publisher_id = NULL THEN NULL
                                ELSE findUnique("publishers", book.publisher_id.num)
          [] OTHER -> book[k]]

\* prisma.book.findMany({where, include}): the rows that have every value
\* where gives (null: not given) and a price within where.price
bookFindMany(where) ==
    {includeRefs(b) : b \in
        {b \in db.book :
            /\ \A k \in RefKeys : where[k] = NULL \/ b[k] = where[k]
            /\ where.price.gte = NULL \/ b.price >= where.price.gte.num
            /\ where.price.lte = NULL \/ b.price <= where.price.lte.num}}

\* getBookByFilter with the price bounds tested like the ids: if (min_price),
\* if (max_price)
getBookByFilterTruthy(filters) ==
    bookFindMany(
        [author_id |-> IF FalsyNumber(filters.author_id) THEN NULL ELSE filters.author_id,
         category_id |-> IF FalsyNumber(filters.category_id) THEN NULL ELSE filters.category_id,
         publisher_id |-> IF FalsyNumber(filters.publisher_id) THEN NULL ELSE filters.publisher_id,
         price |-> [gte |-> IF FalsyNumber(filters.min_price) THEN NULL ELSE filters.min_price,
                    lte |-> IF FalsyNumber(filters.max_price) THEN NULL ELSE filters.max_price]])

\* getBookByFilter(filters): if (author_id) where.author_id = author_id, ...;
\* if (min_price !== undefined) where.price = {gte: min_price};
\* if (max_price !== undefined) where.price = {...where.price, lte: max_price}
getBookByFilter(filters) ==
    bookFindMany(
        [author_id |-> IF FalsyNumber(filters.author_id) THEN NULL ELSE filters.author_id,
         category_id |-> IF FalsyNumber(filters.category_id) THEN NULL ELSE filters.category_id,
         publisher_id |-> IF FalsyNumber(filters.publisher_id) THEN NULL ELSE filters.publisher_id,
         price |-> [gte |-> filters.min_price, lte |-> filters.max_price]])

\* The query strings of GET /book/filters: a parameter is absent, or the text
\* of a number (of an id, of a price), or empty; an id may also be a word
RefQuery == {NULL, Str(<<Word("abc")>>)} \cup {NumStr(n) : n \in 0..MaxRefId}
PriceQuery == {NULL, EmptyString} \cup {NumStr(n) : n \in 0..(MaxPrice + 1)}
Queries ==
    [author_id : RefQuery, category_id : RefQuery, publisher_id : RefQuery,
     min_price : PriceQuery, max_price : PriceQuery]

\* bookRouter.get('/filters'): one request
BookFilters(query) ==
    /\ resp = NoResp
    /\ resp' = [route |-> "book", op |-> "filters", query |-> query, status |-> 200,
                body |-> [rows |-> getBookByFilter(filtersOf(query))], store |-> TRUE]
    /\ UNCHANGED <<db, seq, inflight, now, env, issued, deleted, signups>>

\* The rows the book table may hold: of each id at most one, with a price
\* (the columns the filter does not read are left out) and foreign keys that
\* are null or reference a row
Refs == {NULL} \cup {Num(i) : i \in 1..MaxRefId}
BookRows(id) ==
    [id : {id}, price : 0..MaxPrice, author_id : Refs, category_id : Refs,
     publisher_id : Refs]
RECURSIVE BookTables(_)
BookTables(n) ==
    IF n = 0 THEN {{}}
    ELSE LET rest == BookTables(n - 1) IN
         rest \cup {t \cup {b} : t \in rest, b \in BookRows(n)}

----------------------------------------------------------------------------
(* /auth router: signup and signin *)

Logins == {"l1", "l2"}
Passwords == [head : {"a", "b"}, tail : {"", "x"}]
NoPassword == [head |-> "", tail |-> ""]

AuthData == [login : Logins \cup {""}, password : Passwords \cup {NoPassword}]

\* authValid with the login checked only
authValidLoginOnly(data) == data.login # ""

\* body('login').notEmpty().isString(), body('password').notEmpty().isString()
authValid(data) == data.login # "" /\ data.password # NoPassword

\* The response of an /auth route; user, userType and crmCard are the
\* controller's locals when it returned or threw
AuthResp(op, data, status, body, user, userType, crmCard) ==
    [route |-> "auth", op |-> op, data |-> data, status |-> status, body |-> body,
     user |-> user, userType |-> userType, crmCard |-> crmCard]

\* A request suspended at an await of its controller
Suspended(op, pc, data, user, userType) ==
    [op |-> op, pc |-> pc, data |-> data, user |-> user, userType |-> userType]

\* The history of signups when it is not kept
NoHistory == {[kept |-> FALSE]}

\* The history after a signup was answered r by its controller: the body
\* sent, the status, the error's message and the id of the user created
Observed(history, r) ==
    IF history = NoHistory \/ r = NoResp \/ r.status = 400 THEN history
    ELSE history \cup
           {[data |-> r.data, status |-> r.status,
             message |-> IF r.status = 201 THEN "" ELSE r.body.message,
             id |-> IF r.user = NULL THEN 0 ELSE r.user.id]}

\* POST /auth/signup up to the answer of prisma.user.create, with fewer than
\* limit requests suspended
SignupCreateUserWithin(limit, data, salt) ==
    /\ resp = NoResp
    /\ Cardinality(inflight) < limit
    /\ seq.user <= MaxUserId
    /\ IF ~authValid(data)
       THEN /\ resp' = AuthResp("signup", data, 400, [errors |-> "login, password"],
                                NULL, NULL, NULL)
            /\ UNCHANGED <<db, seq, inflight>>
       ELSE LET hash == hashSync(data.password, salt)
                r == userCreate([login |-> data.login, password |-> hash])
            IN  /\ db' = r.db
                /\ seq' = r.seq
                /\ IF r.err # ""
                   THEN /\ resp' = AuthResp("signup", data, 500, [message |-> r.err],
                                            NULL, NULL, NULL)
                        /\ UNCHANGED inflight
                   ELSE /\ inflight' = inflight \cup
                               {Suspended("signup", "userType.findFirst", data, r.row, NULL)}
                        /\ UNCHANGED resp
    /\ signups' = Observed(signups, resp')
    /\ UNCHANGED <<now, env, issued, deleted>>

SignupCreateUser(data, salt) == SignupCreateUserWithin(MaxInflight, data, salt)

\* signup from the answer of prisma.userType.findFirst
SignupFindUserType(r) ==
    /\ resp = NoResp
    /\ r.op = "signup" /\ r.pc = "userType.findFirst"
    /\ IF userTypeFindFirst = {}
       THEN /\ resp' = AuthResp("signup", r.data, 500, [message |-> "UserType not found"],
                                r.user, NULL, NULL)
            /\ inflight' = inflight \ {r}
       ELSE /\ \E userType \in userTypeFindFirst :
                  inflight' = (inflight \ {r}) \cup
                      {Suspended("signup", "crmCard.create", r.data, r.user, userType)}
            /\ UNCHANGED resp
    /\ signups' = Observed(signups, resp')
    /\ UNCHANGED <<db, seq, now, env, issued, deleted>>

\* signup from the answer of prisma.crmCard.create to the response
SignupCreateCard(r) ==
    /\ resp = NoResp
    /\ r.op = "signup" /\ r.pc = "crmCard.create"
    /\ seq.crm_card <= MaxCardId
    /\ LET c == crmCardCreate([user_id |-> r.user.id, user_type_id |-> r.userType.id])
       IN  /\ db' = c.db
           /\ seq' = c.seq
           /\ resp' =
                IF c.err # ""
                THEN AuthResp("signup", r.data, 500, [message |-> c.err],
                              r.user, r.userType, NULL)
                ELSE AuthResp("signup", r.data, 201,
                              [user |-> exclude(r.user, {"password"}),
                               user_crm |-> includeUserType(c.row, db.user_type)],
                              r.user, r.userType, c.row)
    /\ inflight' = inflight \ {r}
    /\ signups' = Observed(signups, resp')
    /\ UNCHANGED <<now, env, issued, deleted>>

\* POST /auth/signin up to the answer of bcrypt.compare
SigninFindUser(data) ==
    /\ resp = NoResp
    /\ Cardinality(inflight) < MaxInflight
    /\ IF ~authValid(data)
       THEN /\ resp' = AuthResp("signin", data, 400, [errors |-> "login, password"],
                                NULL, NULL, NULL)
            /\ UNCHANGED inflight
       ELSE LET user == userFindUniqueByLogin(data.login) IN
            IF user = NULL
            THEN /\ resp' = AuthResp("signin", data, 500, [message |-> "User not found"],
                                     NULL, NULL, NULL)
                 /\ UNCHANGED inflight
            ELSE IF ~compare(data.password, user.password)
            THEN /\ resp' = AuthResp("signin", data, 500, [message |-> "Invalid password"],
                                     user, NULL, NULL)
                 /\ UNCHANGED inflight
            ELSE /\ inflight' = inflight \cup
                        {Suspended("signin", "crmCard.findFirst", data, user, NULL)}
                 /\ UNCHANGED resp
    /\ UNCHANGED <<db, seq, now, env, issued, deleted, signups>>

\* signin's result with a freshly issued token added
signinResultWithToken(user, userCrmCard) ==
    [user |-> exclude(user, {"password"}), user_crm |-> userCrmCard,
     token |-> Str(<<generateToken(user)>>)]

\* return { user: exclude(user, ['password']), user_crm: userCrmCard }
signinResult(user, userCrmCard) ==
    [user |-> exclude(user, {"password"}), user_crm |-> userCrmCard]

\* signin from the answer of prisma.crmCard.findFirst to the response
SigninFindCard(r) ==
    /\ resp = NoResp
    /\ r.op = "signin" /\ r.pc = "crmCard.findFirst"
    /\ \E userCrmCard \in crmCardFindFirst(r.user.id) :
          resp' = AuthResp("signin", r.data, 201, signinResult(r.user, userCrmCard),
                           r.user, NULL, userCrmCard)
    /\ inflight' = inflight \ {r}
    /\ UNCHANGED <<db, seq, now, env, issued, deleted, signups>>

\* A call of generateToken(user)
GenerateToken(user) ==
    /\ resp = NoResp
    /\ Cardinality(issued) < MaxIssued
    /\ issued' = issued \cup {generateToken(user)}
    /\ UNCHANGED <<db, seq, inflight, resp, now, env, deleted, signups>>

\* Time passes
Tick ==
    /\ resp = NoResp
    /\ now < MaxTime
    /\ now' = now + 1
    /\ UNCHANGED <<db, seq, inflight, resp, env, issued, deleted, signups>>

\* The client takes the response
Deliver ==
    /\ resp # NoResp
    /\ resp' = NoResp
    /\ UNCHANGED <<db, seq, inflight, now, env, issued, deleted, signups>>

----------------------------------------------------------------------------
(* Specifications *)

InitStore ==
    /\ db = [t \in Tables |-> {}]
    /\ seq = [t \in Tables |-> 1]
    /\ inflight = {}
    /\ resp = NoResp
    /\ now = 0
    /\ issued = {}
    /\ deleted = {}
    /\ signups = NoHistory

\* The server starts on an empty store, in any environment
InitGate == InitStore /\ env \in EnvSet

\* The /auth, /user_type and /crm_card routes read nothing of the environment
Init == InitStore /\ env = [SECRET_KEY |-> ""]

NextGate ==
    \/ \E header \in Headers, data \in AuthorData : AuthorRequest(header, "post", 0, data)
    \/ \E header \in Headers, id \in 1..MaxAuthorId, data \in AuthorData :
          AuthorRequest(header, "put", id, data)
    \/ \E header \in Headers : AuthorRequest(header, "list", 0, [firstName |-> ""])
    \/ \E header \in Headers, id \in 1..MaxAuthorId :
          AuthorRequest(header, "get", id, [firstName |-> ""])
    \/ \E header \in Headers, id \in 1..MaxAuthorId :
          AuthorRequest(header, "delete", id, [firstName |-> ""])
    \/ \E user \in TokenUsers : GenerateToken(user)
    \/ Tick
    \/ Deliver

SpecGate == InitGate /\ [][NextGate]_vars

Next ==
    \/ \E data \in AuthData, salt \in genSaltSync(saltRounds) : SignupCreateUser(data, salt)
    \/ \E r \in inflight : SignupFindUserType(r)
    \/ \E r \in inflight : SignupCreateCard(r)
    \/ \E data \in AuthData : SigninFindUser(data)
    \/ \E r \in inflight : SigninFindCard(r)
    \/ \E data \in UserTypeData : UserTypeRequest("post", 0, data)
    \/ \E id \in 1..MaxUserTypeId, data \in UserTypeData : UserTypeRequest("put", id, data)
    \/ \E id \in 1..MaxUserTypeId : UserTypeRequest("delete", id, Empty)
    \/ \E data \in CrmCardData : CrmCardRequest("post", 0, data)
    \/ \E id \in 1..MaxCardId, data \in CrmCardData : CrmCardRequest("put", id, data)
    \/ \E id \in 1..MaxCardId : CrmCardRequest("delete", id, Empty)
    \/ Deliver

Spec == Init /\ [][Next]_vars

\* The /categories router on its own
NextCrud ==
    \/ \E data \in CategoriesData : CategoriesRequest("post", 0, data)
    \/ \E id \in 1..MaxCategoryId, data \in CategoriesData : CategoriesRequest("put", id, data)
    \/ CategoriesRequest("list", 0, Empty)
    \/ \E id \in 1..MaxCategoryId : CategoriesRequest("get", id, Empty)
    \/ \E id \in 1..MaxCategoryId : CategoriesRequest("delete", id, Empty)
    \/ \E path \in EntityPaths : ApiGet(path)
    \/ Deliver

SpecCrud == Init /\ [][NextCrud]_vars

\* The filtered listing over a store that holds books and the rows they
\* reference
InitBook ==
    /\ \E books \in BookTables(MaxBookId) :
          db = [t \in Tables |->
                  CASE t = "book" -> books
                    [] t = "author" -> {[id |-> i, firstName |-> "A"] : i \in 1..MaxRefId}
                    [] t \in {"categories", "publishers"} ->
                         {[id |-> i, name |-> "A"] : i \in 1..MaxRefId}
                    [] OTHER -> {}]
    /\ seq = [t \in Tables |->
                CASE t = "book" -> MaxBookId + 1
                  [] t \in {"author", "categories", "publishers"} -> MaxRefId + 1
                  [] OTHER -> 1]
    /\ inflight = {}
    /\ resp = NoResp
    /\ now = 0
    /\ issued = {}
    /\ deleted = {}
    /\ signups = NoHistory
    /\ env = [SECRET_KEY |-> ""]

\* The auth endpoints and the user type routes, with two signups at a time
\* and the history of signups kept
AuthInputs == [login : Logins, password : Passwords]

InitAuth ==
    /\ db = [t \in Tables |-> {}]
    /\ seq = [t \in Tables |-> 1]
    /\ inflight = {}
    /\ resp = NoResp
    /\ now = 0
    /\ issued = {}
    /\ deleted = {}
    /\ signups = {}
    /\ env = [SECRET_KEY |-> ""]

NextAuth ==
    \/ \E data \in AuthInputs, salt \in genSaltSync(saltRounds) :
          SignupCreateUserWithin(MaxConcurrent, data, salt)
    \/ \E r \in inflight : SignupFindUserType(r)
    \/ \E r \in inflight : SignupCreateCard(r)
    \/ \E data \in AuthInputs : SigninFindUser(data)
    \/ \E r \in inflight : SigninFindCard(r)
    \/ \E data \in UserTypeData : UserTypeRequest("post", 0, data)
    \/ \E id \in 1..MaxUserTypeId, data \in UserTypeData : UserTypeRequest("put", id, data)
    \/ UserTypeRequest("list", 0, Empty)
    \/ \E id \in 1..MaxUserTypeId : UserTypeRequest("get", id, Empty)
    \/ \E id \in 1..MaxUserTypeId : UserTypeRequest("delete", id, Empty)
    \/ Deliver

SpecAuth == InitAuth /\ [][NextAuth]_vars

\* Deletes over a store that holds books and the rows they reference, and a
\* user type that a CRM card references. Each book references an author, a
\* category and a publisher, or none of them
InitRefs ==
    /\ \E books \in BookTables(MaxBookId) :
          /\ \A b \in books :
                \/ b.author_id = NULL /\ b.category_id = NULL /\ b.publisher_id = NULL
                \/ b.author_id # NULL /\ b.category_id # NULL /\ b.publisher_id # NULL
          /\ db = [t \in Tables |->
                  CASE t = "book" -> books
                    [] t = "author" -> {[id |-> i, firstName |-> "A"] : i \in 1..MaxRefId}
                    [] t \in {"categories", "publishers"} ->
                         {[id |-> i, name |-> "A"] : i \in 1..MaxRefId}
                    [] t = "user" -> {u \in TokenUsers : u.id = 1}
                    [] t = "user_type" -> {[id |-> 1, is_user |-> TRUE]}
                    [] t = "crm_card" -> {[id |-> 1, user_id |-> 1, user_type_id |-> 1]}]
    /\ seq = [t \in Tables |->
                CASE t = "book" -> MaxBookId + 1
                  [] t \in {"author", "categories", "publishers"} -> MaxRefId + 1
                  [] OTHER -> 2]
    /\ inflight = {}
    /\ resp = NoResp
    /\ now = 0
    /\ issued = {}
    /\ deleted = {}
    /\ signups = NoHistory
    /\ env = [SECRET_KEY |-> ""]

NextRefs ==
    \/ \E id \in 1..MaxCategoryId : CategoriesRequest("delete", id, Empty)
    \/ \E header \in Headers, id \in 1..MaxAuthorId :
          AuthorRequest(header, "delete", id, [firstName |-> ""])
    \/ \E id \in 1..MaxUserTypeId : UserTypeRequest("delete", id, Empty)
    \/ \E id \in 1..MaxCardId : CrmCardRequest("delete", id, Empty)
    \/ Deliver

SpecRefs == InitRefs /\ [][NextRefs]_vars

NextBook ==
    \/ \E query \in Queries : BookFilters(query)
    \/ Deliver

SpecBook == InitBook /\ [][NextBook]_vars


----------------------------------------------------------------------------
(* Properties of the authentication gate (SpecGate) *)

\* The second space-separated part of a header is present and not empty
HasTokenPart(h) ==
    /\ h # NULL
    /\ Len(Split(h)) >= 2
    /\ Split(h)[2] # EmptyString

\* The token part of header h is one well-formed token, signed under the
\* secret of the environment ('test' when SECRET_KEY is unset) and not expired
\* at time t
TokenPartVerifies(h, t) ==
    /\ HasTokenPart(h)
    /\ \E a \in issued \cup ForgedTokens :
          /\ Split(h)[2] = Str(<<a>>)
          /\ a.word = "jwt"
          /\ a.sig = (IF env.SECRET_KEY = "" THEN "test" ELSE env.SECRET_KEY)
          /\ t < a.exp

\* C1: a request to the /author router reaches the route handler, and touches
\* the store, only after the gate has verified a token taken from its
\* Authorization header; a request without a token or with a token that fails
\* verification reaches neither.
C1_GateBeforeHandler ==
    resp.route = "author" =>
        /\ (resp.handler \/ resp.store) =>
              /\ TokenPartVerifies(resp.header, resp.time)
              /\ resp.gate.next /\ resp.gate.status = 0
        /\ ~TokenPartVerifies(resp.header, resp.time) =>
              ~resp.handler /\ ~resp.store

C1_Witness ==
    /\ resp.route = "author"
    /\ resp.handler /\ resp.store
    /\ resp.op = "post" /\ resp.status = 201

\* C2: the gate answers 401 exactly when the header yields no token, 403
\* exactly when it yields a token that fails verification (malformed, wrongly
\* signed or expired), and with a valid token neither: the handler answers.
C2_GateStatus ==
    resp.route = "author" =>
        /\ resp.status = 401 <=> ~HasTokenPart(resp.header)
        /\ resp.status = 403 <=>
              HasTokenPart(resp.header) /\ ~TokenPartVerifies(resp.header, resp.time)
        /\ TokenPartVerifies(resp.header, resp.time) =>
              /\ resp.handler
              /\ resp.gate.status = 0
              /\ resp.status \in {200, 201, 400, 404, 500}

\* an expired, rightly signed token was answered 403
C2_Witness ==
    /\ resp.route = "author"
    /\ resp.status = 403
    /\ \E a \in issued \cup ForgedTokens :
          /\ resp.header = Str(<<Word("Bearer"), SP, a>>)
          /\ a.word = "jwt"
          /\ a.sig = (IF env.SECRET_KEY = "" THEN "test" ELSE env.SECRET_KEY)
          /\ resp.time >= a.exp

\* C3: a token produced by generateToken(user), presented before its expiry
\* as 'Authorization: Bearer <token>', is accepted by authenticateToken,
\* whether SECRET_KEY is set or not, and req.user carries the user's id and
\* login.
C3_IssueVerifyRoundTrip ==
    resp.route = "author" =>
        \A t \in issued :
            (resp.header = Str(<<Word("Bearer"), SP, t>>) /\ resp.time < t.exp) =>
                /\ resp.handler
                /\ resp.gate.user # NULL
                /\ \E u \in TokenUsers :
                      resp.gate.user.id = u.id /\ resp.gate.user.username = u.login

----------------------------------------------------------------------------
(* Properties of signup and signin (Spec) *)

IsSignup(r) == r.route = "auth" /\ r.op = "signup"
IsSignin(r) == r.route = "auth" /\ r.op = "signin"

\* The requests that were suspended and have answered or failed in this step
Finished == inflight \ inflight'
\* The requests that got suspended, or moved on to their next await, in this
\* step
Started == inflight' \ inflight

\* C4: a signup whose login is already in the User table is answered with the
\* store's unique-constraint failure, which no other failure of signup
\* carries, and adds no User row and no CrmCard row; a signup that goes on past
\* the user insert has a login that was not in the table.
C4_DuplicateSignup ==
    [][ /\ (/\ resp = NoResp
            /\ IsSignup(resp')
            /\ Finished = {}
            /\ authValid(resp'.data)
            /\ \E u \in db.user : u.login = resp'.data.login)
           => /\ resp'.status = 500
              /\ resp'.body = [message |-> P2002]
              /\ resp'.body.message \notin {"UserType not found", P2003, P2025}
              /\ db'.user = db.user
              /\ db'.crm_card = db.crm_card
        /\ \A r \in Started :
              (r.op = "signup" /\ r.pc = "userType.findFirst") =>
                  ~\E u \in db.user : u.login = r.data.login
      ]_vars

C4_Witness ==
    /\ IsSignup(resp)
    /\ resp.status = 500
    /\ resp.body = [message |-> P2002]
    /\ \E u \in db.user : u.login = resp.data.login /\ u.password.of # resp.data.password.head

\* C5: a signup that ends in failure leaves no User row and no CrmCard row
\* that it created.
C5_SignupAtomicOnFailure ==
    (IsSignup(resp) /\ resp.status # 201) =>
        /\ resp.user = NULL \/ resp.user \notin db.user
        /\ resp.crmCard = NULL \/ resp.crmCard \notin db.crm_card

\* C6: signin with a login that no User row has is answered 404 with a message
\* body and shows no stored user field.
C6_SigninUnknownLogin ==
    (/\ IsSignin(resp)
     /\ authValid(resp.data)
     /\ ~\E u \in db.user : u.login = resp.data.login)
    => /\ resp.status = 404
       /\ DOMAIN resp.body = {"message"}

\* C7: signin with an existing login and a password that does not match the
\* stored hash fails with 'Invalid password'; it never gets to the CrmCard
\* lookup and its response carries neither the user nor the CRM card.
C7_SigninWrongPassword ==
    /\ (/\ IsSignin(resp)
        /\ authValid(resp.data)
        /\ \E u \in db.user :
              u.login = resp.data.login /\ u.password.of # resp.data.password.head)
       => /\ resp.status = 500
          /\ resp.body = [message |-> "Invalid password"]
          /\ resp.crmCard = NULL
    /\ \A r \in inflight :
          r.op = "signin" =>
              /\ r.user \in db.user
              /\ r.user.login = r.data.login
              /\ r.user.password.of = r.data.password.head

C7_Witness ==
    /\ IsSignin(resp)
    /\ resp.body = [message |-> "Invalid password"]
    /\ \E u \in db.user :
          u.login = resp.data.login /\ u.password.of # resp.data.password.head

\* The card's UserType has is_user = true when the card is created
TypeIsUserAtCreate(r, c) ==
    \E t \in db.user_type : t.id = c.user_type_id /\ t.is_user

\* The card's UserType is the row signup looked up, which had is_user = true
\* then and still exists when the card is created
TypeWasUserAtLookup(r, c) ==
    /\ c.user_type_id = r.userType.id
    /\ r.userType.is_user
    /\ \E t \in db.user_type : t.id = c.user_type_id

\* The steps of a signup that succeeds: the first adds one User row with the
\* given login and nothing else, the lookup changes nothing, the last adds one
\* CrmCard row of that user, of a UserType as claimed or as amended.
SignupSteps(asClaimed) ==
    /\ \A r \in Started :
          (r.op = "signup" /\ r.pc = "userType.findFirst") =>
              /\ r.user \notin db.user
              /\ r.user.login = r.data.login
              /\ db' = [db EXCEPT !.user = @ \cup {r.user}]
    /\ \A r \in Finished :
          (r.op = "signup" /\ r.pc = "userType.findFirst") => db' = db
    /\ \A r \in Finished :
          (r.op = "signup" /\ r.pc = "crmCard.create" /\ resp'.status = 201) =>
              /\ r.user \in db.user
              /\ \E c \in db'.crm_card \ db.crm_card :
                    /\ db' = [db EXCEPT !.crm_card = @ \cup {c}]
                    /\ c = resp'.crmCard
                    /\ c.user_id = r.user.id
                    /\ IF asClaimed THEN TypeIsUserAtCreate(r, c)
                       ELSE TypeWasUserAtLookup(r, c)

\* C8, as claimed: a successful signup adds exactly one User row with the given
\* login and exactly one CrmCard row, of that user and of a UserType that has
\* is_user = true when the card is created, and changes no other row.
C8_SignupAddsUserAndCard == [][SignupSteps(TRUE)]_vars

\* C8, amended: ... of that user and of the UserType row that signup looked
\* up, which had is_user = true at the lookup and still exists when the card
\* is created.
C8_SignupAddsUserAndCardOfLookedUpType == [][SignupSteps(FALSE)]_vars

C8_Witness ==
    /\ IsSignup(resp)
    /\ resp.status = 201
    /\ resp.crmCard \in db.crm_card
    /\ Cardinality(db.user) = 2

\* C9: no successful signup or signin response has a password field, and the
\* password of every User row is the bcrypt hash of the password of the
\* request, never the password itself.
C9_NoPasswordExposed ==
    /\ (resp.route = "auth" /\ resp.status = 201) =>
          /\ DOMAIN resp.body = {"user", "user_crm"}
          /\ DOMAIN resp.body.user = {"id", "login"}
          /\ "password" \notin DOMAIN resp.body.user_crm
          /\ resp.body.user_crm # NULL =>
                "password" \notin DOMAIN resp.body.user_crm.user_type
    /\ \A u \in db.user :
          /\ u.password \notin Passwords
          /\ u.password.alg = "bcrypt"
    /\ \A r \in inflight :
          r.op = "signup" =>
              /\ r.user.password # r.data.password
              /\ r.user.password.of = r.data.password.head
    /\ (IsSignup(resp) /\ resp.status = 201) =>
          /\ resp.user \in db.user
          /\ resp.user.password # resp.data.password
          /\ resp.user.password.of = resp.data.password.head

C9_Witness ==
    /\ IsSignin(resp)
    /\ resp.status = 201
    /\ resp.body.user_crm # NULL
    /\ resp.user.password.of = resp.data.password.head

\* C10, as claimed: the user_crm of a successful signin is a CrmCard row, not
\* null, whose user_id is the id of the user that signed in.
C10_SigninReturnsCard ==
    (IsSignin(resp) /\ resp.status = 201) =>
        /\ resp.body.user_crm # NULL
        /\ resp.body.user_crm.user_id = resp.body.user.id

\* C10, amended: the user_crm of a successful signin is a CrmCard row of the
\* store whose user_id is the id of the user that signed in, or null, and it
\* is null exactly when no CrmCard row has that user_id.
C10_SigninReturnsCardOrNull ==
    (IsSignin(resp) /\ resp.status = 201) =>
        /\ resp.body.user.login = resp.data.login
        /\ resp.body.user_crm = NULL <=>
              ~\E c \in db.crm_card : c.user_id = resp.body.user.id
        /\ resp.body.user_crm # NULL =>
              /\ resp.body.user_crm.user_id = resp.body.user.id
              /\ exclude(resp.body.user_crm, {"user_type"}) \in db.crm_card

C10_Witness ==
    /\ IsSignin(resp)
    /\ resp.status = 201
    /\ resp.body.user_crm # NULL
    /\ \E c \in db.crm_card : c.user_id # resp.body.user.id
----------------------------------------------------------------------------
(* Properties of the responses (Spec) *)

\* The tokens a response body carries (a token travels as a field of the
\* body: no handler sets a response header)
TokensOf(body) == IF "token" \in DOMAIN body THEN {body.token} ELSE {}

----------------------------------------------------------------------------
(* Properties of the entity handlers, on /categories (SpecCrud) *)

IsCategories(r) == r.route = "categories"

\* A body that is valid and has the declared fields of the entity only
PlainFields(data) == categoriesValid(data) /\ DOMAIN data = {"name"}

\* C12: a create with valid fields is answered 201 with a row of the input
\* fields and an id that no row had, which is the row added to the table; a
\* getById of an id that has a row is answered 200 with that row.
C12_CreateThenGet ==
    [][ /\ (IsCategories(resp') /\ resp'.op = "post" /\ PlainFields(resp'.data)) =>
              /\ resp'.status = 201
              /\ resp'.body = [id |-> resp'.body.id, name |-> resp'.data.name]
              /\ resp'.body.id \notin Ids("categories")
              /\ db' = [db EXCEPT !.categories = @ \cup {resp'.body}]
        /\ (IsCategories(resp') /\ resp'.op = "get") =>
              \A row \in db.categories :
                  row.id = resp'.id => resp'.status = 200 /\ resp'.body = row
      ]_vars

\* C13: an update with valid fields of an id that has no row is answered 404
\* with a message body and leaves the store unchanged.
C13_UpdateAbsentIsNotFound ==
    [][ (/\ IsCategories(resp') /\ resp'.op = "put"
         /\ PlainFields(resp'.data)
         /\ resp'.id \notin Ids("categories"))
        => /\ resp'.status = 404
           /\ DOMAIN resp'.body = {"message"}
           /\ db' = db
      ]_vars

\* C14: a delete of an id that has no row, never created or already deleted,
\* is answered 404 with a message body and leaves the store unchanged.
C14_DeleteAbsentIsNotFound ==
    [][ (/\ IsCategories(resp') /\ resp'.op = "delete"
         /\ resp'.id \notin Ids("categories"))
        => /\ resp'.status = 404
           /\ DOMAIN resp'.body = {"message"}
           /\ db' = db
      ]_vars

\* C15: after a successful update(id, f) the row of id has the fields f, so a
\* getById(id) returns them; and a getById of an id whose delete has
\* succeeded is answered 404 for the rest of the run, whatever was created
\* since.
C15_UpdateReflectedDeleteFinal ==
    /\ (IsCategories(resp) /\ resp.op = "put" /\ resp.status = 200) =>
          \E row \in db.categories :
              /\ row.id = resp.id
              /\ \A k \in DOMAIN resp.data : row[k] = resp.data[k]
    /\ (IsCategories(resp) /\ resp.op = "get"
        /\ [table |-> "categories", id |-> resp.id] \in deleted) =>
          resp.status = 404
    /\ \A d \in deleted : d.table = "categories" => d.id \notin Ids("categories")
----------------------------------------------------------------------------
(* Properties of the filtered listing (SpecBook) *)

IsFilters(r) == r.route = "book" /\ r.op = "filters"

\* The book rows of a filters response, without the rows joined to them
BooksOf(r) == {exclude(b, {"author", "category", "publisher"}) : b \in r.body.rows}

\* A query parameter is supplied with a number, and the number
Given(q) == q # NULL /\ q # EmptyString /\ "digits" \in DOMAIN q.str[1]
ValueOf(q) == q.str[1].digits

\* min_price <= price <= max_price, for the bounds that are supplied
InRange(b, query) ==
    /\ Given(query.min_price) => ValueOf(query.min_price) <= b.price
    /\ Given(query.max_price) => b.price <= ValueOf(query.max_price)

\* The book has the value of every id parameter that is supplied
HasRefs(b, query) ==
    \A k \in RefKeys : Given(query[k]) => b[k] = Num(ValueOf(query[k]))

\* C16: the books the filter returns all have min_price <= price <= max_price
\* for the bounds supplied (0 included), and no book within the bounds is left
\* out unless an id parameter excludes it: with price bounds only, the result
\* is exactly the books within the bounds, hence empty when
\* min_price > max_price.
C16_PriceRange ==
    IsFilters(resp) =>
        /\ \A b \in BooksOf(resp) : b \in db.book /\ InRange(b, resp.query)
        /\ \A b \in db.book :
              (InRange(b, resp.query) /\ HasRefs(b, resp.query)) => b \in BooksOf(resp)
        /\ (\A k \in RefKeys : resp.query[k] = NULL) =>
              BooksOf(resp) = {b \in db.book : InRange(b, resp.query)}

\* both bounds are 0 and they keep a book and leave one out
C16_Witness ==
    /\ IsFilters(resp)
    /\ resp.query.min_price = NumStr(0)
    /\ resp.query.max_price = NumStr(0)
    /\ BooksOf(resp) # {}
    /\ \E b \in db.book : b.price > 0

\* C17: for each of author_id, category_id and publisher_id supplied with an
\* integer v, 0 included, every book returned has that foreign key equal to
\* v; a parameter that is omitted restricts nothing; the result is exactly
\* the books that satisfy all supplied constraints.
C17_RefFilters ==
    IsFilters(resp) =>
        /\ \A b \in BooksOf(resp) : HasRefs(b, resp.query)
        /\ BooksOf(resp) =
              {b \in db.book : HasRefs(b, resp.query) /\ InRange(b, resp.query)}
----------------------------------------------------------------------------
(* Properties of validation and of error handling (Spec) *)

\* The body of the request that r answers violates the field schema its route
\* declares
InvalidBody(r) ==
    CASE r.route = "auth" ->
           r.data.login = "" \/ r.data.password = NoPassword
      [] r.route = "user_type" /\ r.op \in {"post", "put"} ->
           "is_user" \notin DOMAIN r.data
      [] r.route = "crm_card" /\ r.op = "post" ->
           "user_id" \notin DOMAIN r.data \/ "user_type_id" \notin DOMAIN r.data
      [] OTHER -> FALSE

Failures ==
    {P2002, P2003, P2025, "UserType not found", "User not found", "Invalid password"}

----------------------------------------------------------------------------
(* Properties of the store (Spec) *)

\* C20: in every reachable state, whatever the interleaving of signup with the
\* writes to /user_type and /crm_card, every foreign key of every row
\* references an existing row: the user and the user type of each CRM card
\* exist (the tables of the other foreign keys are written by none of these
\* requests).
C20_ForeignKeys ==
    \A c \in db.crm_card :
        /\ \E u \in db.user : u.id = c.user_id
        /\ \E t \in db.user_type : t.id = c.user_type_id

\* the delete of a user type that a card references was refused
C20_Witness ==
    /\ resp.route = "user_type"
    /\ resp.op = "delete"
    /\ resp.status = 500
    /\ resp.body = [message |-> P2003]
    /\ \E c \in db.crm_card : c.user_type_id = resp.id
----------------------------------------------------------------------------
(* Further properties of the responses and of the gate *)

\* The response reports success: it has no errors list, and a message only
\* to confirm a delete
Succeeded(r) ==
    /\ r # NoResp
    /\ "errors" \notin DOMAIN r.body
    /\ "message" \in DOMAIN r.body => r.body.message = "CRM card deleted successfully"

\* C24: a successful request that creates a row (a POST of an entity, a
\* signup) is answered 201, and a successful request that creates none
\* (update, delete, signin) is answered 200.
C24_SuccessStatus ==
    Succeeded(resp) =>
        resp.status = IF resp.op \in {"post", "signup"} THEN 201 ELSE 200

\* The header has the form 'Bearer <token>'
IsBearer(h) ==
    /\ h # NULL
    /\ Len(h.str) >= 3
    /\ h.str[1] = Word("Bearer")
    /\ h.str[2] = SP

\* C25: a request whose Authorization header is not of the form
\* 'Bearer <token>' (another scheme, a bare token, 'Bearer' alone, no header)
\* is rejected by the gate, 401 or 403, and neither the handler nor the store
\* is reached.
C25_BearerOnly ==
    (resp.route = "author" /\ ~IsBearer(resp.header)) =>
        /\ resp.status \in {401, 403}
        /\ ~resp.handler
        /\ ~resp.store

\* C29: for every request the gate either sends one response, 401 or 403,
\* and does not call next, or calls next after setting req.user to the
\* claims of the token and sends no response; never both, never neither.
C29_GateEitherOr ==
    resp.route = "author" =>
        \/ /\ resp.gate.status \in {401, 403}
           /\ ~resp.gate.next
           /\ resp.gate.user = NULL
           /\ ~resp.handler
           /\ resp.status = resp.gate.status
        \/ /\ resp.gate.status = 0
           /\ resp.gate.next
           /\ resp.gate.user # NULL
           /\ DOMAIN resp.gate.user = {"id", "username", "iat", "exp"}
           /\ resp.handler
           /\ resp.status \in {200, 201, 400, 404, 500}

\* one request passed on with the claims of an issued token
C29_Witness ==
    /\ resp.route = "author"
    /\ resp.gate.next
    /\ resp.gate.status = 0
    /\ \E t \in issued : resp.gate.user = exclude(t, {"word", "sig"})

\* C23: a GET on the resource path of any entity (categories, book, the book
\* filters, order, order status, order item) is dispatched to the router of
\* that entity, and so is answered by its handler and not by the 404 of a
\* missing route.
C23_EveryPathRegistered ==
    resp.route = "api" =>
        /\ resp.router = resp.path[1]
        /\ resp.status # 404

\* The foreign key of book that references a table
KeyOf(table) == IF table = "author" THEN "author_id" ELSE "category_id"

----------------------------------------------------------------------------
(* Properties of signup and signin over the history of signups (SpecAuth) *)

\* The signups of the history that were answered 201
Succeeded201 == {a \in signups : a.status = 201}

\* C21: no two User rows have the same login, whatever the interleaving of
\* the signup requests; of the signups with one login at most one is answered
\* with success; and once a signup with a login got past validation exactly
\* one User row has that login.
C21_LoginUnique ==
    /\ \A u, v \in db.user : u.login = v.login => u = v
    /\ \A a, b \in Succeeded201 : a.data.login = b.data.login => a = b
    /\ \A a \in signups : Cardinality({u \in db.user : u.login = a.data.login}) = 1

\* a signup is refused for its login while the signup that took the login is
\* still suspended
C21_Witness ==
    /\ IsSignup(resp)
    /\ resp.body = [message |-> P2002]
    /\ \E r \in inflight : r.op = "signup" /\ r.data.login = resp.data.login

\* C26: after signup(l, p) was answered with success, signin(l, p) is
\* answered with success and the id of the user signed up, and signin(l, q)
\* fails for every password q other than p.
C26_RoundTrip ==
    \A a \in Succeeded201 :
        (IsSignin(resp) /\ resp.data.login = a.data.login) =>
            IF resp.data.password = a.data.password
            THEN resp.status = 201 /\ resp.body.user.id = a.id
            ELSE resp.status # 201

\* C27: a signin(l, p) is answered with success only if a signup(l, p) was
\* answered with success before.
C27_SigninOnlyAfterSignup ==
    (IsSignin(resp) /\ resp.status = 201) =>
        \E a \in Succeeded201 : a.data = resp.data

\* C28: a signup with the login and password of a signup that failed with
\* 'UserType not found' succeeds, unless the user type is missing again (not
\* found, or deleted before the card is inserted).
C28_RetryAfterNoUserType ==
    (/\ IsSignup(resp)
     /\ \E a \in signups : a.data = resp.data /\ a.message = "UserType not found")
    => \/ resp.status = 201
       \/ resp.body \in {[message |-> "UserType not found"], [message |-> P2003]}

\* C30: a signin, at either of its steps, and a list or getById of the user
\* types leave the rows of every table, and the id sequences, as they were,
\* whatever the answer.
C30_ReadsLeaveStore ==
    [][(\/ /\ resp = NoResp
           /\ resp' # NoResp
           /\ resp'.op \in {"signin", "list", "get"}
        \/ \E r \in Started : r.op = "signin")
       => db' = db /\ seq' = seq
      ]_vars

\* a user type was read by its id and is still in the table
C30_Witness ==
    /\ resp.route = "user_type"
    /\ resp.op = "get"
    /\ resp.status = 200
    /\ resp.body \in db.user_type

====
